---- MODULE Spec2Model ----
(***************************************************************************)
(* Model of the temperature toolkit: converter.convert, TemperatureRecord  *)
(* and the analytics functions over lists of records.                      *)
(*                                                                         *)
(* Numbers.  Temperatures are Python floats in the source.  Here a         *)
(* temperature is an integer count of thousandths of a degree, so 32.028   *)
(* is 32028 and round(x, 2) rounds to a multiple of 10.  An unrounded      *)
(* intermediate (a quotient by 9, 5 or a list length) is the exact         *)
(* fraction <<num, den>> with den > 0.  Binary representation error of     *)
(* floats (of order 1e-13 at these magnitudes) is not modelled.            *)
(*                                                                         *)
(* Strings.  A scale name is a sequence of one-character strings so that   *)
(* str.lower() is computed character by character.  Dates are opaque       *)
(* labels and stay TLA+ strings.                                           *)
(***************************************************************************)
EXTENDS Integers, Sequences, FiniteSets, TLC

VARIABLES
    rec,        \* the TemperatureRecord object under test, or NoRecord
    records,    \* the caller's list of TemperatureRecord objects
    last        \* the last call made and what it returned or raised

vars == <<rec, records, last>>

----------------------------------------------------------------------------
(* Scale names as character sequences.                                     *)

celsius == <<"c", "e", "l", "s", "i", "u", "s">>
fahrenheit == <<"f", "a", "h", "r", "e", "n", "h", "e", "i", "t">>
kelvin == <<"k", "e", "l", "v", "i", "n">>

\* valid_scales of convert
valid_scales == {celsius, fahrenheit, kelvin}

UpperToLower ==
    [c \in {"A", "B", "C", "D", "E", "F", "G", "H", "I", "J", "K", "L", "M",
            "N", "O", "P", "Q", "R", "S", "T", "U", "V", "W", "X", "Y", "Z"} |->
        CASE c = "A" -> "a" [] c = "B" -> "b" [] c = "C" -> "c" [] c = "D" -> "d"
          [] c = "E" -> "e" [] c = "F" -> "f" [] c = "G" -> "g" [] c = "H" -> "h"
          [] c = "I" -> "i" [] c = "J" -> "j" [] c = "K" -> "k" [] c = "L" -> "l"
          [] c = "M" -> "m" [] c = "N" -> "n" [] c = "O" -> "o" [] c = "P" -> "p"
          [] c = "Q" -> "q" [] c = "R" -> "r" [] c = "S" -> "s" [] c = "T" -> "t"
          [] c = "U" -> "u" [] c = "V" -> "v" [] c = "W" -> "w" [] c = "X" -> "x"
          [] c = "Y" -> "y" [] c = "Z" -> "z"]

\* str.lower(): every upper-case letter is replaced, everything else is kept
Lower(s) ==
    [i \in 1..Len(s) |-> IF s[i] \in DOMAIN UpperToLower THEN UpperToLower[s[i]] ELSE s[i]]

\* Scale strings a caller passes: canonical, other letter cases, and invalid
ScaleInputs ==
    { celsius, fahrenheit, kelvin,
      <<"C", "E", "L", "S", "I", "U", "S">>,
      <<"F", "a", "h", "r", "e", "n", "h", "e", "i", "t">>,
      <<"K", "E", "L", "V", "I", "N">>,
      <<"b", "o", "g", "u", "s">>,
      <<"R", "a", "n", "k", "i", "n", "e">>,
      <<>> }

----------------------------------------------------------------------------
(* Arithmetic of convert.                                                  *)

FahrenheitOffset == 32000
KelvinOffset == 273150

\* a rounding that truncates downwards instead of rounding to nearest
Truncate2(q) == 10 * (q[1] \div (10 * q[2]))

\* round(x, 2): nearest multiple of 0.01, a tie going to the even multiple
Round2(q) ==
    LET unit == 10 * q[2]
        lo == q[1] \div unit
        rem == q[1] % unit
    IN  IF 2 * rem < unit THEN 10 * lo
        ELSE IF 2 * rem > unit THEN 10 * (lo + 1)
        ELSE IF lo % 2 = 0 THEN 10 * lo ELSE 10 * (lo + 1)

\* Step 1 of convert: the original value in Celsius, unrounded
ToCelsius(value, original_scale) ==
    IF original_scale = fahrenheit THEN <<(value - FahrenheitOffset) * 5, 9>>
    ELSE IF original_scale = kelvin THEN <<value - KelvinOffset, 1>>
    ELSE <<value, 1>>

\* Step 2 of convert: the Celsius value c in the target scale, unrounded
FromCelsius(c, target_scale) ==
    IF target_scale = fahrenheit THEN <<c[1] * 9 + FahrenheitOffset * 5 * c[2], 5 * c[2]>>
    ELSE IF target_scale = kelvin THEN <<c[1] + KelvinOffset * c[2], c[2]>>
    ELSE c

\* What a call produces: a returned value, or a raised ValueError that names
\* the offending argument and its lower-cased value
Return(v) == [raised |-> FALSE, val |-> v, arg |-> "none", name |-> <<>>]
Raise(a, n) == [raised |-> TRUE, val |-> 0, arg |-> a, name |-> n]

\* the equal-scales branch returning its argument as it is
SameScaleUnrounded(value) == value

\* the branch of convert taken when the two scales are equal
SameScale(value) == Round2(<<value, 1>>)

\* a convert that validates the target before the original
ConvertTargetFirst(value, original_scale, target_scale) ==
    LET o == Lower(original_scale)
        t == Lower(target_scale)
    IN  IF t \notin valid_scales THEN Raise("target", t)
        ELSE IF o \notin valid_scales THEN Raise("original", o)
        ELSE IF o = t THEN Return(SameScale(value))
        ELSE Return(Round2(FromCelsius(ToCelsius(value, o), t)))

\* convert(value, original_scale, target_scale)
Convert(value, original_scale, target_scale) ==
    LET o == Lower(original_scale)
        t == Lower(target_scale)
    IN  IF o \notin valid_scales THEN Raise("original", o)
        ELSE IF t \notin valid_scales THEN Raise("target", t)
        ELSE IF o = t THEN Return(SameScale(value))
        ELSE Return(Round2(FromCelsius(ToCelsius(value, o), t)))

----------------------------------------------------------------------------
(* Calls of convert on their own.                                          *)

ValueSpan == 50

\* Values passed to convert: every thousandth around 32.000 (a full period
\* of the Fahrenheit rounding pattern), and temperatures the tests use,
\* among them values below absolute zero
Values ==
    {FahrenheitOffset + d : d \in (0 - ValueSpan)..ValueSpan}
        \cup {-500000, -300004, -273150, -40000, 0, 5, 15, 25, 1, 77000, 100000,
              KelvinOffset, 298150, 25000}

\* placeholder for the record object where no record is under test
NoRecord == [date |-> "", readings |-> <<>>, scale |-> <<>>]

NoCall ==
    [op |-> "none", value |-> 0, original |-> <<>>, target |-> <<>>, mid |-> 0,
     sel |-> 0, temps |-> <<>>, given |-> FALSE, out |-> Return(0)]

\* convert(v, o, t) on the arguments the caller chose
ConvertCall ==
    /\ last.op = "args"
    /\ last' = [last EXCEPT !.op = "convert",
                            !.out = Convert(last.value, last.original, last.target)]
    /\ UNCHANGED <<rec, records>>

\* convert(convert(v, A, B), B, A): the value just returned is converted back
ConvertBack ==
    /\ last.op = "convert"
    /\ ~last.out.raised
    /\ last' = [last EXCEPT !.op = "roundtrip",
                            !.mid = last.out.val,
                            !.out = Convert(last.out.val, last.target, last.original)]
    /\ UNCHANGED <<rec, records>>

\* any value and any two scale strings are the arguments of the first call
InitConv ==
    /\ rec = NoRecord
    /\ records = <<>>
    /\ \E v \in Values, o \in ScaleInputs, t \in ScaleInputs :
           last = [NoCall EXCEPT !.op = "args", !.value = v, !.original = o, !.target = t]

NextConv == ConvertCall \/ ConvertBack

SpecConv == InitConv /\ [][NextConv]_vars

----------------------------------------------------------------------------
(* Properties of convert.                                                  *)

Abs(x) == IF x < 0 THEN 0 - x ELSE x

\* the call last made was a round trip between two different valid scales
IsRoundTrip == last.op = "roundtrip" /\ Lower(last.original) # Lower(last.target)

C4_RaisesIffInvalidScale ==
    last.op = "convert" =>
        LET o == Lower(last.original)
            t == Lower(last.target)
            bad(x) == x # celsius /\ x # fahrenheit /\ x # kelvin
        IN  /\ last.out.raised <=> (bad(o) \/ bad(t))
            /\ bad(o) => last.out.arg = "original" /\ last.out.name = o
            /\ (~bad(o) /\ bad(t)) => last.out.arg = "target" /\ last.out.name = t

C4_Witness ==
    /\ last.op = "convert"
    /\ Lower(last.original) \notin valid_scales
    /\ Lower(last.target) \notin valid_scales
    /\ last.original # last.target
    /\ last.out.raised
    /\ last.out.arg = "original"

\* C5: for equal valid scales in any letter case, convert returns the value
\* rounded to 2 decimals: a multiple of 0.01 at most 0.005 away from the
\* value, whatever the value, also below absolute zero
C5_IdentityRounds ==
    (last.op = "convert" /\ Lower(last.original) = Lower(last.target)
        /\ Lower(last.original) \in {celsius, fahrenheit, kelvin}) =>
            /\ ~last.out.raised
            /\ last.out.val % 10 = 0
            /\ Abs(last.out.val - last.value) <= 5

C5_Witness ==
    /\ last.op = "convert"
    /\ last.original = kelvin
    /\ last.target # kelvin
    /\ Lower(last.target) = kelvin
    /\ last.value = -300004
    /\ last.out = Return(-300000)

----------------------------------------------------------------------------
(* TemperatureRecord.                                                      *)

MaxReadings == 2

Dates == {"d1", "d2"}

\* Readings given to a record under test: 0, a value with three decimals,
\* and a value below absolute zero in every scale
ReadingValues == {0, 32028, -300004}

\* the sequences over S of length at most n
SeqUpTo(S, n) == UNION {[1..k -> S] : k \in 0..n}

RECURSIVE SumSeq(_)
\* sum(xs)
SumSeq(xs) == IF xs = <<>> THEN 0 ELSE xs[1] + SumSeq(Tail(xs))

\* min(xs) and max(xs) of a non-empty list
MinSeq(xs) == CHOOSE x \in {xs[i] : i \in 1..Len(xs)} : \A i \in 1..Len(xs) : x <= xs[i]
MaxSeq(xs) == CHOOSE x \in {xs[i] : i \in 1..Len(xs)} : \A i \in 1..Len(xs) : x >= xs[i]

\* TemperatureRecord.__init__: nothing is validated, the scale is lower-cased
TemperatureRecord(date, readings, scale) ==
    [date |-> date, readings |-> readings, scale |-> Lower(scale)]

\* TemperatureRecord.convert_to: the record afterwards and the outcome of the
\* call (it returns None, written Return(0)).  The list comprehension calls
\* convert once per reading, in order; the first call that raises ends the
\* method before either field is assigned.
ConvertToResult(r, target_scale) ==
    LET t == Lower(target_scale)
        conv == [i \in 1..Len(r.readings) |-> Convert(r.readings[i], r.scale, t)]
        failed == {i \in 1..Len(r.readings) : conv[i].raised}
    IN  IF t = r.scale THEN [rec |-> r, out |-> Return(0)]
        ELSE IF failed # {}
            THEN [rec |-> r,
                  out |-> conv[CHOOSE i \in failed : \A j \in failed : i <= j]]
        ELSE [rec |-> [r EXCEPT !.readings = [i \in 1..Len(r.readings) |-> conv[i].val],
                                !.scale = t],
              out |-> Return(0)]

\* record.convert_to(t) for any scale string t
ConvertTo ==
    \E t \in ScaleInputs :
        LET res == ConvertToResult(rec, t)
        IN  /\ rec' = res.rec
            /\ last' = [NoCall EXCEPT !.op = "convert_to", !.target = t, !.out = res.out]
            /\ UNCHANGED records

\* a record constructed from any date, readings and scale string
InitRecord ==
    /\ records = <<>>
    /\ \E d \in Dates, rs \in SeqUpTo(ReadingValues, MaxReadings), sc \in ScaleInputs :
           /\ rec = TemperatureRecord(d, rs, sc)
           /\ last = [NoCall EXCEPT !.op = "construct", !.original = sc]

\* a summary that forgets to round min and max
SummaryStatsUnroundedRange(readings) ==
    [min |-> MinSeq(readings),
     max |-> MaxSeq(readings),
     avg |-> Round2(<<SumSeq(readings), Len(readings)>>)]

\* min, max and avg of get_summary for non-empty readings
SummaryStats(readings) ==
    [min |-> Round2(<<MinSeq(readings), 1>>),
     max |-> Round2(<<MaxSeq(readings), 1>>),
     avg |-> Round2(<<SumSeq(readings), Len(readings)>>)]

\* TemperatureRecord.get_summary: the dictionary returned
GetSummary(r) ==
    IF r.readings = <<>>
        THEN [date |-> r.date, scale |-> r.scale, min |-> 0, max |-> 0, avg |-> 0]
        ELSE LET st == SummaryStats(r.readings)
             IN  [date |-> r.date, scale |-> r.scale,
                  min |-> st.min, max |-> st.max, avg |-> st.avg]

\* Thresholds passed to the threshold checks: two of the values a reading can
\* have, and one below all of them
Thresholds == {0, 32028, -400000}

\* a strict check that also accepts a reading equal to the threshold
RECURSIVE AllAboveOrEqual(_, _)
AllAboveOrEqual(readings, threshold) ==
    IF readings = <<>> THEN TRUE
    ELSE IF ~(readings[1] >= threshold) THEN FALSE
    ELSE AllAboveOrEqual(Tail(readings), threshold)

RECURSIVE AllAbove(_, _)
\* all(temp > threshold for temp in readings): the first reading that fails
\* the comparison ends the scan
AllAbove(readings, threshold) ==
    IF readings = <<>> THEN TRUE
    ELSE IF ~(readings[1] > threshold) THEN FALSE
    ELSE AllAbove(Tail(readings), threshold)

RECURSIVE AllAtOrAbove(_, _)
\* all(temp >= threshold for temp in readings)
AllAtOrAbove(readings, threshold) ==
    IF readings = <<>> THEN TRUE
    ELSE IF ~(readings[1] >= threshold) THEN FALSE
    ELSE AllAtOrAbove(Tail(readings), threshold)

\* record.get_summary()
CallGetSummary ==
    /\ last' = [NoCall EXCEPT !.op = "get_summary", !.out = Return(GetSummary(rec))]
    /\ UNCHANGED <<rec, records>>

\* record.is_above_threshold(t)
CallIsAboveThreshold ==
    \E t \in Thresholds :
        /\ last' = [NoCall EXCEPT !.op = "is_above_threshold", !.value = t,
                                  !.out = Return(AllAbove(rec.readings, t))]
        /\ UNCHANGED <<rec, records>>

\* record.is_at_or_above_threshold(t)
CallIsAtOrAboveThreshold ==
    \E t \in Thresholds :
        /\ last' = [NoCall EXCEPT !.op = "is_at_or_above_threshold", !.value = t,
                                  !.out = Return(AllAtOrAbove(rec.readings, t))]
        /\ UNCHANGED <<rec, records>>

NextRecord ==
    ConvertTo \/ CallGetSummary \/ CallIsAboveThreshold \/ CallIsAtOrAboveThreshold

SpecRecord == InitRecord /\ [][NextRecord]_vars

\* C1: for every record of the data model (its scale one of the three
\* canonical names, its readings possibly empty), convert_to with a target
\* that is not a valid scale after lower-casing raises and leaves the
\* record's readings and scale as they were
C1_InvalidTargetRaises ==
    [][(/\ last'.op = "convert_to"
        /\ rec.scale \in valid_scales
        /\ Lower(last'.target) \notin valid_scales)
           => (last'.out.raised /\ rec' = rec)]_vars

\* C2: a record constructed with a valid scale has a canonical scale, and
\* no convert_to call, raising or not, takes it out of the canonical scales
C2_ScaleAlwaysCanonical ==
    /\ (last.op = "construct" /\ Lower(last.original) \in valid_scales)
           => rec.scale \in {celsius, fahrenheit, kelvin}
    /\ [][(last'.op = "convert_to" /\ rec.scale \in {celsius, fahrenheit, kelvin})
              => rec'.scale \in {celsius, fahrenheit, kelvin}]_vars

----------------------------------------------------------------------------
(* Properties of get_summary and the threshold checks.                     *)

\* x is y rounded to 2 decimals, y = num / den
IsRounded2(x, num, den) == x % 10 = 0 /\ Abs(x * den - num) <= 5 * den

\* the summary holds the record's date and current scale, and zeros or the
\* rounded least reading, greatest reading and mean
SummaryOfRecord(sm) ==
    LET r == rec.readings
    IN  /\ sm.date = rec.date
        /\ sm.scale = rec.scale
        /\ r = <<>> => sm.min = 0 /\ sm.max = 0 /\ sm.avg = 0
        /\ r # <<>> =>
               \E lo, hi \in 1..Len(r) :
                   /\ \A k \in 1..Len(r) : r[lo] <= r[k] /\ r[k] <= r[hi]
                   /\ IsRounded2(sm.min, r[lo], 1)
                   /\ IsRounded2(sm.max, r[hi], 1)
                   /\ IsRounded2(sm.avg, SumSeq(r), Len(r))

\* C11 as stated (here: for records in a valid scale): get_summary raises
\* nothing and returns the date, the current scale and the rounded min, max
\* and avg (zeros without readings); for a single reading all three equal
\* that reading
C11_SummarySingleEqualsReading ==
    (last.op = "get_summary" /\ rec.scale \in valid_scales) =>
        /\ ~last.out.raised
        /\ SummaryOfRecord(last.out.val)
        /\ Len(rec.readings) = 1 =>
               /\ last.out.val.min = rec.readings[1]
               /\ last.out.val.max = rec.readings[1]
               /\ last.out.val.avg = rec.readings[1]

\* C11 amended: as above, but for a single reading all three equal that
\* reading rounded to 2 decimals
C11_SummaryRounded ==
    last.op = "get_summary" =>
        /\ ~last.out.raised
        /\ SummaryOfRecord(last.out.val)
        /\ Len(rec.readings) = 1 =>
               /\ IsRounded2(last.out.val.min, rec.readings[1], 1)
               /\ last.out.val.max = last.out.val.min
               /\ last.out.val.avg = last.out.val.min

C11_Witness ==
    /\ last.op = "get_summary"
    /\ rec.readings = <<32028>>
    /\ rec.scale = kelvin
    /\ last.out.val = [date |-> rec.date, scale |-> kelvin,
                       min |-> 32030, max |-> 32030, avg |-> 32030]

\* C12: is_above_threshold(t) is true exactly when every stored reading is
\* greater than t, is_at_or_above_threshold(t) exactly when every stored
\* reading is at least t; both are true without readings, and the record's
\* scale plays no part
C12_ThresholdChecks ==
    /\ last.op = "is_above_threshold" =>
           /\ ~last.out.raised
           /\ last.out.val <=> (\A k \in 1..Len(rec.readings) : rec.readings[k] > last.value)
           /\ rec.readings = <<>> => last.out.val
    /\ last.op = "is_at_or_above_threshold" =>
           /\ ~last.out.raised
           /\ last.out.val <=> (\A k \in 1..Len(rec.readings) : rec.readings[k] >= last.value)
           /\ rec.readings = <<>> => last.out.val

C12_Witness ==
    /\ last.op = "is_above_threshold"
    /\ rec.scale = fahrenheit
    /\ rec.readings = <<32028, 0>>
    /\ last.value = 0
    /\ last.out = Return(FALSE)

----------------------------------------------------------------------------
(* Analytics over a list of records.                                       *)

MaxRecords == 2

\* Readings of the records handed to the analytics functions: none, the same
\* temperature written in two scales (0 C = 32 F), a pair whose second value
\* has three decimals, and a triple with a negative mean
ReadingSamples ==
    { <<>>, <<0>>, <<32000>>, <<0, 32028>>, <<32028, -300004, 0>> }

\* Scale strings the records are constructed with
RecordScales ==
    { celsius,
      <<"F", "a", "h", "r", "e", "n", "h", "e", "i", "t">>,
      <<"K", "E", "L", "V", "I", "N">>,
      <<"b", "o", "g", "u", "s">> }

\* a flattening that first converts every reading to Celsius
RECURSIVE AllReadingsInCelsius(_)
AllReadingsInCelsius(recs) ==
    IF recs = <<>> THEN <<>>
    ELSE [i \in 1..Len(recs[1].readings) |->
              Convert(recs[1].readings[i], recs[1].scale, celsius).val]
             \o AllReadingsInCelsius(Tail(recs))

RECURSIVE AllReadings(_)
\* all_readings of average_temperature_across_days: every record's readings,
\* as stored, one record after the other
AllReadings(recs) ==
    IF recs = <<>> THEN <<>> ELSE recs[1].readings \o AllReadings(Tail(recs))

\* average_temperature_across_days(records)
AverageTemperatureAcrossDays(recs) ==
    LET all_readings == AllReadings(recs)
    IN  IF all_readings # <<>>
            THEN Round2(<<SumSeq(all_readings), Len(all_readings)>>)
            ELSE 0

\* The sort key of hottest_day: float("-inf"), or the exact mean num / den
NegInf == [neg_inf |-> TRUE, num |-> 0, den |-> 1, out |-> Return(0)]

\* a key function that scores a record without readings 0
AvgInCelsiusZeroForEmpty(record) ==
    LET temps_c == [i \in 1..Len(record.readings) |->
                        Convert(record.readings[i], record.scale, celsius)]
        failed == {i \in 1..Len(record.readings) : temps_c[i].raised}
    IN  IF record.readings = <<>> THEN [NegInf EXCEPT !.neg_inf = FALSE]
        ELSE IF failed # {}
            THEN [NegInf EXCEPT !.out = temps_c[CHOOSE i \in failed : \A j \in failed : i <= j]]
        ELSE [neg_inf |-> FALSE,
              num |-> SumSeq([i \in 1..Len(temps_c) |-> temps_c[i].val]),
              den |-> Len(temps_c),
              out |-> Return(0)]

\* avg_in_celsius(record) of hottest_day; out carries the ValueError of the
\* first convert call that raises
avg_in_celsius(record) ==
    LET temps_c == [i \in 1..Len(record.readings) |->
                        Convert(record.readings[i], record.scale, celsius)]
        failed == {i \in 1..Len(record.readings) : temps_c[i].raised}
    IN  IF record.readings = <<>> THEN NegInf
        ELSE IF failed # {}
            THEN [NegInf EXCEPT !.out = temps_c[CHOOSE i \in failed : \A j \in failed : i <= j]]
        ELSE [neg_inf |-> FALSE,
              num |-> SumSeq([i \in 1..Len(temps_c) |-> temps_c[i].val]),
              den |-> Len(temps_c),
              out |-> Return(0)]

\* a < b on keys
KeyLess(a, b) ==
    IF b.neg_inf THEN FALSE
    ELSE IF a.neg_inf THEN TRUE
    ELSE a.num * b.den < b.num * a.den

\* a max that also replaces the best item by an equal one
ReplacesBestOnTie(key, best) == ~KeyLess(key, best)

\* max(iterable, key=...) replaces its best item only by a strictly greater one
ReplacesBest(key, best) == KeyLess(best, key)

RECURSIVE MaxIndex(_, _)
\* the index max(records, key=avg_in_celsius) has selected after n records
MaxIndex(keys, n) ==
    IF n = 1 THEN 1
    ELSE LET best == MaxIndex(keys, n - 1)
         IN  IF ReplacesBest(keys[n], keys[best]) THEN n ELSE best

\* hottest_day(records): the outcome and the index of the record selected
HottestDay(recs) ==
    IF recs = <<>> THEN [out |-> Return(""), sel |-> 0]
    ELSE LET keys == [i \in 1..Len(recs) |-> avg_in_celsius(recs[i])]
             failed == {i \in 1..Len(recs) : keys[i].out.raised}
         IN  IF failed # {}
                 THEN [out |-> keys[CHOOSE i \in failed : \A j \in failed : i <= j].out,
                       sel |-> 0]
             ELSE LET best == MaxIndex(keys, Len(recs))
                  IN  [out |-> Return(recs[best].date), sel |-> best]

\* the tuple temperature_range_for_each_day stores for one record
RangeEntry(record) ==
    IF record.readings # <<>>
        THEN <<Round2(<<MinSeq(record.readings), 1>>), Round2(<<MaxSeq(record.readings), 1>>)>>
        ELSE <<0, 0>>

\* a store that keeps the entry a date already has
RangeKeepFirst(result, record) ==
    [d \in DOMAIN result \cup {record.date} |->
        IF d \in DOMAIN result THEN result[d] ELSE RangeEntry(record)]

\* result[record.date] = ... on a dict
RangeStore(result, record) ==
    [d \in DOMAIN result \cup {record.date} |->
        IF d = record.date THEN RangeEntry(record) ELSE result[d]]

RECURSIVE RangeLoop(_, _)
\* result of temperature_range_for_each_day after the first n records
RangeLoop(recs, n) ==
    IF n = 0 THEN [d \in {} |-> <<0, 0>>]
    ELSE RangeStore(RangeLoop(recs, n - 1), recs[n])

\* temperature_range_for_each_day(records)
TemperatureRangeForEachDay(recs) == RangeLoop(recs, Len(recs))

\* Thresholds passed to detect_extreme_days: two of the stored values
ExtremeThresholds == {0, 32000}

\* a test that also counts a reading equal to the threshold
ExceedsOrEqual(temp, threshold) == temp >= threshold

\* temp > threshold
Exceeds(temp, threshold) == temp > threshold

RECURSIVE AnyExceeds(_, _)
\* any(temp > threshold for temp in readings)
AnyExceeds(readings, threshold) ==
    IF readings = <<>> THEN FALSE
    ELSE IF Exceeds(readings[1], threshold) THEN TRUE
    ELSE AnyExceeds(Tail(readings), threshold)

RECURSIVE DetectExtremeDays(_, _)
\* detect_extreme_days(records, threshold): the list comprehension
DetectExtremeDays(recs, threshold) ==
    IF recs = <<>> THEN <<>>
    ELSE (IF AnyExceeds(recs[1].readings, threshold) THEN <<recs[1].date>> ELSE <<>>)
             \o DetectExtremeDays(Tail(recs), threshold)

\* the caller constructs one more record and appends it to the list
AddRecord ==
    /\ Len(records) < MaxRecords
    /\ last.op \in {"none", "construct"}
    /\ \E d \in Dates, rs \in ReadingSamples, sc \in RecordScales :
           /\ records' = Append(records, TemperatureRecord(d, rs, sc))
           /\ last' = [NoCall EXCEPT !.op = "construct", !.original = sc]
    /\ UNCHANGED rec

CallAverage ==
    /\ last' = [NoCall EXCEPT !.op = "average",
                              !.out = Return(AverageTemperatureAcrossDays(records))]
    /\ UNCHANGED <<rec, records>>

CallHottestDay ==
    /\ LET res == HottestDay(records)
       IN  last' = [NoCall EXCEPT !.op = "hottest_day", !.out = res.out, !.sel = res.sel]
    /\ UNCHANGED <<rec, records>>

CallRange ==
    /\ last' = [NoCall EXCEPT !.op = "range",
                              !.out = Return(TemperatureRangeForEachDay(records))]
    /\ UNCHANGED <<rec, records>>

CallDetectExtremeDays ==
    \E t \in ExtremeThresholds :
        /\ last' = [NoCall EXCEPT !.op = "detect_extreme_days", !.value = t,
                                  !.out = Return(DetectExtremeDays(records, t))]
        /\ UNCHANGED <<rec, records>>

InitAnalytics ==
    /\ rec = NoRecord
    /\ records = <<>>
    /\ last = NoCall

NextAnalytics ==
    AddRecord \/ CallAverage \/ CallHottestDay \/ CallRange \/ CallDetectExtremeDays

SpecAnalytics == InitAnalytics /\ [][NextAnalytics]_vars

----------------------------------------------------------------------------
(* Properties of the analytics functions.                                  *)

RecordIndexes == 1..Len(records)

\* the readings of record i converted to Celsius, summed
CelsiusSum(i) ==
    SumSeq([k \in 1..Len(records[i].readings) |->
                Convert(records[i].readings[k], records[i].scale, celsius).val])

\* every reading of every record, converted to Celsius
CelsiusReadings ==
    UNION {{Convert(records[i].readings[k], records[i].scale, celsius).val :
                k \in 1..Len(records[i].readings)} : i \in RecordIndexes}

\* C6: when the records are stored in at least two different valid scales
\* and all their readings denote one and the same temperature c in Celsius,
\* the average returned is c
C6_AverageIsScaleAware ==
    (/\ last.op = "average"
     /\ \A i \in RecordIndexes : records[i].scale \in valid_scales
     /\ \E i, j \in RecordIndexes : /\ records[i].scale # records[j].scale
                                    /\ records[i].readings # <<>>
                                    /\ records[j].readings # <<>>
     /\ Cardinality(CelsiusReadings) = 1) =>
        \A c \in CelsiusReadings : last.out.val = c

C8_NeverSelectsEmpty ==
    (/\ last.op = "hottest_day"
     /\ records # <<>>
     /\ \A i \in RecordIndexes : records[i].scale \in valid_scales) =>
        /\ last.sel \in RecordIndexes
        /\ last.out.val = records[last.sel].date
        /\ records[last.sel].readings # <<>>

\* C8 amended: when at least one record of the list has a reading, the
\* record hottest_day selects has at least one reading
C8_SelectsNonEmptyIfAny ==
    (/\ last.op = "hottest_day"
     /\ ~last.out.raised
     /\ \E i \in RecordIndexes : records[i].readings # <<>>) =>
        /\ last.sel \in RecordIndexes
        /\ last.out.val = records[last.sel].date
        /\ records[last.sel].readings # <<>>

C8_Witness ==
    /\ last.op = "hottest_day"
    /\ Len(records) = 2
    /\ records[1].readings = <<>>
    /\ records[2].readings # <<>>
    /\ CelsiusSum(2) < 0
    /\ records[1].date # records[2].date
    /\ last.out = Return(records[2].date)

\* record i is at least as hot as record j: j has no readings, or both have
\* and the Celsius mean of i is at least that of j
AtLeastAsHot(i, j) ==
    \/ records[j].readings = <<>>
    \/ /\ records[i].readings # <<>>
       /\ CelsiusSum(i) * Len(records[j].readings) >= CelsiusSum(j) * Len(records[i].readings)

\* C9: with valid scales hottest_day raises nothing; it returns "" for the
\* empty list and otherwise the date of the first record, in input order,
\* whose Celsius mean no other record exceeds
C9_FirstMaximalCelsiusMean ==
    (last.op = "hottest_day" /\ \A i \in RecordIndexes : records[i].scale \in valid_scales) =>
        /\ ~last.out.raised
        /\ records = <<>> => last.out.val = ""
        /\ records # <<>> =>
               \E i \in RecordIndexes :
                   /\ last.out.val = records[i].date
                   /\ last.sel = i
                   /\ \A j \in RecordIndexes : AtLeastAsHot(i, j)
                   /\ \A j \in 1..(i - 1) : ~AtLeastAsHot(j, i)

C9_Witness ==
    /\ last.op = "hottest_day"
    /\ Len(records) = 2
    /\ records[1] = [date |-> "d2", readings |-> <<32000>>, scale |-> fahrenheit]
    /\ records[2] = [date |-> "d1", readings |-> <<0>>, scale |-> celsius]
    /\ last.out = Return("d2")

\* the last record, in input order, that carries date d
LastWithDate(d) ==
    CHOOSE i \in RecordIndexes :
        /\ records[i].date = d
        /\ \A j \in RecordIndexes : records[j].date = d => j <= i

\* C10: the keys of the returned map are exactly the dates of the input;
\* each date maps to (0, 0) if the last record carrying it has no readings
\* and otherwise to that record's least and greatest reading, each rounded
\* to 2 decimals; the map is empty for the empty list
C10_RangeOfLastRecordPerDate ==
    last.op = "range" =>
        /\ ~last.out.raised
        /\ DOMAIN last.out.val = {records[i].date : i \in RecordIndexes}
        /\ \A d \in DOMAIN last.out.val :
               LET r == records[LastWithDate(d)].readings
               IN  IF r = <<>> THEN last.out.val[d] = <<0, 0>>
                   ELSE \E lo, hi \in 1..Len(r) :
                            /\ \A k \in 1..Len(r) : r[lo] <= r[k] /\ r[k] <= r[hi]
                            /\ last.out.val[d][1] % 10 = 0
                            /\ last.out.val[d][2] % 10 = 0
                            /\ 2 * Abs(last.out.val[d][1] - r[lo]) <= 10
                            /\ 2 * Abs(last.out.val[d][2] - r[hi]) <= 10

C10_Witness ==
    /\ last.op = "range"
    /\ Len(records) = 2
    /\ records[1].date = records[2].date
    /\ records[1].readings = <<0, 32028>>
    /\ records[2].readings = <<>>
    /\ last.out.val = [d \in {records[1].date} |-> <<0, 0>>]

\* the records with at least one stored reading greater than the threshold
ExtremeIndexes ==
    {i \in RecordIndexes :
        \E k \in 1..Len(records[i].readings) : records[i].readings[k] > last.value}

\* C15: detect_extreme_days returns one date per record that has a stored
\* reading strictly greater than the threshold, in input order, and nothing
\* else: the n-th date returned is the date of the n-th such record; scales
\* play no part and the result is empty for the empty list
C15_ExtremeDaysInOrder ==
    last.op = "detect_extreme_days" =>
        /\ ~last.out.raised
        /\ Len(last.out.val) = Cardinality(ExtremeIndexes)
        /\ \A i \in ExtremeIndexes :
               last.out.val[Cardinality({j \in ExtremeIndexes : j <= i})] = records[i].date
        /\ records = <<>> => last.out.val = <<>>

C15_Witness ==
    /\ last.op = "detect_extreme_days"
    /\ last.value = 32000
    /\ Len(records) = 2
    /\ records[1] = [date |-> "d2", readings |-> <<32000>>, scale |-> celsius]
    /\ records[2] = [date |-> "d1", readings |-> <<0, 32028>>, scale |-> fahrenheit]
    /\ last.out = Return(<<"d1">>)

----------------------------------------------------------------------------
(* temperature_trend and detect_spike on a list of values.                 *)

MaxTemps == 3

\* Values of the lists: 10, 14.9 and 15 (differences of exactly 5, just
\* below 5 and 0.1) and -10
SeriesValues == {10000, 14900, 15000, -10000}

\* Thresholds passed to detect_spike
SpikeThresholds == {-1000, 0, 100, 5000, 20000}

\* the default of detect_spike's keyword argument threshold
DefaultThreshold == 5000

\* a trend that names the direction the wrong way round
TrendWordSwapped(prev, cur) ==
    IF cur > prev THEN "down" ELSE IF cur < prev THEN "up" ELSE "same"

\* the word temperature_trend appends for temps[i - 1] = prev, temps[i] = cur
TrendWord(prev, cur) ==
    IF cur > prev THEN "up" ELSE IF cur < prev THEN "down" ELSE "same"

RECURSIVE TrendLoop(_, _)
\* the words appended by the loop of temperature_trend from position i on
\* (i counts from 1 here, so the loop starts at 2)
TrendLoop(temps, i) ==
    IF i > Len(temps) THEN <<>>
    ELSE <<TrendWord(temps[i - 1], temps[i])>> \o TrendLoop(temps, i + 1)

\* temperature_trend(temps)
TemperatureTrend(temps) ==
    IF Len(temps) < 2 THEN <<>> ELSE TrendLoop(temps, 2)

\* a spike test that needs the difference to exceed the threshold
IsSpikeStrict(prev, cur, threshold) ==
    (IF cur - prev < 0 THEN prev - cur ELSE cur - prev) > threshold

\* abs(temps[i] - temps[i - 1]) >= threshold
IsSpike(prev, cur, threshold) ==
    (IF cur - prev < 0 THEN prev - cur ELSE cur - prev) >= threshold

RECURSIVE SpikeLoop(_, _, _)
\* the loop of detect_spike from position i on: the first spike returns True
SpikeLoop(temps, i, threshold) ==
    IF i > Len(temps) THEN FALSE
    ELSE IF IsSpike(temps[i - 1], temps[i], threshold) THEN TRUE
    ELSE SpikeLoop(temps, i + 1, threshold)

\* detect_spike(temps, threshold=t) when given, detect_spike(temps) otherwise
DetectSpike(temps, given, t) ==
    SpikeLoop(temps, 2, IF given THEN t ELSE DefaultThreshold)

CallTemperatureTrend ==
    /\ last.op = "series"
    /\ last' = [last EXCEPT !.op = "temperature_trend",
                            !.out = Return(TemperatureTrend(last.temps))]
    /\ UNCHANGED <<rec, records>>

CallDetectSpike ==
    /\ last.op = "series"
    /\ last' = [last EXCEPT !.op = "detect_spike",
                            !.out = Return(DetectSpike(last.temps, last.given, last.value))]
    /\ UNCHANGED <<rec, records>>

\* any list of values, and a threshold that is passed or left out
InitSeries ==
    /\ rec = NoRecord
    /\ records = <<>>
    /\ \E ts \in SeqUpTo(SeriesValues, MaxTemps), g \in BOOLEAN, t \in SpikeThresholds :
           /\ ~g => t = 0
           /\ last = [NoCall EXCEPT !.op = "series", !.temps = ts, !.given = g, !.value = t]

NextSeries == CallTemperatureTrend \/ CallDetectSpike

SpecSeries == InitSeries /\ [][NextSeries]_vars

\* C13: detect_spike is true exactly when two adjacent values differ by at
\* least the threshold in absolute value, the threshold being 5 when it is
\* left out; it is false for lists of length 0 or 1 whatever the threshold
C13_SpikeIffAdjacentDifference ==
    last.op = "detect_spike" =>
        LET th == IF last.given THEN last.value ELSE 5000
            ts == last.temps
        IN  /\ ~last.out.raised
            /\ last.out.val <=>
                   (\E i \in 1..(Len(ts) - 1) :
                        \/ ts[i + 1] - ts[i] >= th
                        \/ ts[i] - ts[i + 1] >= th)
            /\ Len(ts) < 2 => ~last.out.val

C13_Witness ==
    /\ last.op = "detect_spike"
    /\ ~last.given
    /\ last.temps = <<14900, 10000, 15000>>
    /\ last.out = Return(TRUE)

\* C14: temperature_trend returns max(0, len - 1) words, the i-th being up,
\* down or same as the value after position i is greater than, less than or
\* equal to the value at position i
C14_TrendOfAdjacentPairs ==
    last.op = "temperature_trend" =>
        LET ts == last.temps
            tr == last.out.val
        IN  /\ ~last.out.raised
            /\ Len(tr) = (IF Len(ts) = 0 THEN 0 ELSE Len(ts) - 1)
            /\ \A i \in 1..Len(tr) :
                   /\ ts[i + 1] > ts[i] => tr[i] = "up"
                   /\ ts[i + 1] < ts[i] => tr[i] = "down"
                   /\ ts[i + 1] = ts[i] => tr[i] = "same"

C14_Witness ==
    /\ last.op = "temperature_trend"
    /\ last.temps = <<10000, 15000, 15000>>
    /\ last.out = Return(<<"up", "same">>)

====
